---- MODULE Spec2Model ----
(***************************************************************************)
(* Flight price tracker: date-combination generator (main.py), fetch       *)
(* session, extraction and offer filter (web_scraper.py), and the batch    *)
(* orchestrator run_tracker (main.py) with its search table (db.py).       *)
(*                                                                         *)
(* Text is a sequence of one-character strings.  A date string             *)
(* "YYYY-MM-DD" is the triple <<YYYY, MM, DD>> of its numeric fields; a    *)
(* datetime is its day ordinal (days since BaseYear-01-01).                *)
(***************************************************************************)
EXTENDS Integers, Sequences, FiniteSets, TLC

VARIABLES
    \* generate_date_combinations: one generator object and its consumer
    gen_args,       \* the four arguments of the call
    gen,            \* the generator frame (locals of the suspended body)
    gen_status,     \* "suspended" | "exhausted" | "ValueError"
    yielded,        \* the values produced so far, in order
    \* flight_data_filter: one call, and a second call on its result
    flt_in,         \* flights_data of the first call
    flt_crit,       \* max_stops, max_duration, top_n of both calls
    flt_out,        \* the first call's result
    flt_out2,       \* the second call's result
    flt_pc,         \* "start" | "once" | "twice"
    \* scrape_google_flights: the calls made one after another
    pc,             \* the statement the current call is at
    call_args,      \* departure_date, return_date and the two option flags
    acquired,       \* browser instances started by webdriver.Chrome(...)
    released,       \* browser instances ended by driver.quit()
    flight_elements,\* the result nodes found on the page
    idx,            \* position of the for loop in flight_elements
    flights_data,   \* the list the call builds
    pending,        \* the value of the return statement while finally runs
    outcome,        \* how the call ended: a returned list, or a raise
    fault,          \* the error that ended the call's normal path, "none" if none
    soft_faults,    \* best-effort steps of this call that raised (and were swallowed)
    steps,          \* the steps this call has run, in order
    calls,          \* calls finished so far
    \* run_tracker: one run over the configured routes
    t_pc,           \* the statement run_tracker is at
    search_configs, \* what load_searches returned
    route_i,        \* routes taken from search_configs so far
    searches,       \* the searches table
    search,         \* the Search row of the current route
    date_combos,    \* the generator object of the current route
    date_combo,     \* the combination being fetched
    flight_data,    \* what get_flight_data returned for it
    n_combos,       \* the counter of the current route
    price_history,  \* the price_history table
    t_error,        \* the exception caught at line 170, "none" if none
    route_log       \* record of the current route: calls made, nodes fetched

genvars == <<gen_args, gen, gen_status, yielded>>
fltvars == <<flt_in, flt_crit, flt_out, flt_out2, flt_pc>>
scrvars == <<pc, call_args, acquired, released, flight_elements, idx, flights_data,
             pending, outcome, fault, soft_faults, steps, calls>>

trkvars == <<t_pc, search_configs, route_i, searches, search, date_combos, date_combo,
             flight_data, n_combos, price_history, t_error, route_log>>

vars == <<gen_args, gen, gen_status, yielded,
          flt_in, flt_crit, flt_out, flt_out2, flt_pc,
          pc, call_args, acquired, released, flight_elements, idx, flights_data,
          pending, outcome, fault, soft_faults, steps, calls,
          t_pc, search_configs, route_i, searches, search, date_combos, date_combo,
          flight_data, n_combos, price_history, t_error, route_log>>

(***************************************************************************)
(* Bounds of the model                                                     *)
(***************************************************************************)
MaxStay == 3        \* stay lengths are drawn from 0..MaxStay
MaxSpan == 4        \* date strings span BaseDate .. BaseDate + MaxSpan days
MaxOffers == 3      \* flight_data_filter is given lists of 0..MaxOffers offers
MaxTopN == 3        \* top_n is drawn from -MaxTopN..MaxTopN, or unset
MaxNodes == 3       \* a result page holds 1..MaxNodes result nodes
MaxCalls == 2       \* scrape_google_flights is called up to MaxCalls times
MaxRoutes == 2      \* searches.json holds 0..MaxRoutes routes

(***************************************************************************)
(* Dates: datetime.strptime(s, "%Y-%m-%d"), timedelta, strftime            *)
(***************************************************************************)
\* the first date string of the inputs; day ordinals count from its year
BaseDate == <<2026, 2, 26>>

BaseYear == BaseDate[1]

IsLeap(y) == (y % 4 = 0 /\ y % 100 # 0) \/ y % 400 = 0

DaysInMonth(y, m) ==
    IF m = 2 THEN (IF IsLeap(y) THEN 29 ELSE 28)
    ELSE IF m \in {4, 6, 9, 11} THEN 30 ELSE 31

DaysInYear(y) == IF IsLeap(y) THEN 366 ELSE 365

RECURSIVE DaysBeforeYear(_)
DaysBeforeYear(y) == IF y <= BaseYear THEN 0 ELSE DaysBeforeYear(y - 1) + DaysInYear(y - 1)

RECURSIVE DaysBeforeMonth(_, _)
DaysBeforeMonth(y, m) == IF m <= 1 THEN 0 ELSE DaysBeforeMonth(y, m - 1) + DaysInMonth(y, m - 1)

\* strptime accepts the text iff month and day exist in the calendar
DateParses(s) ==
    /\ s[1] >= BaseYear
    /\ s[2] \in 1..12
    /\ s[3] \in 1..DaysInMonth(s[1], s[2])

strptime(s) == DaysBeforeYear(s[1]) + DaysBeforeMonth(s[1], s[2]) + (s[3] - 1)

RECURSIVE OrdToDate(_, _, _)
OrdToDate(y, m, n) ==
    IF n >= DaysInYear(y) /\ m = 1 THEN OrdToDate(y + 1, 1, n - DaysInYear(y))
    ELSE IF n >= DaysInMonth(y, m) THEN OrdToDate(y, m + 1, n - DaysInMonth(y, m))
    ELSE <<y, m, n + 1>>

strftime(dt) == OrdToDate(BaseYear, 1, dt)

(***************************************************************************)
(* generate_date_combinations (main.py:65-97), a Python generator.  The    *)
(* body runs only inside next(): gen_next resumes the frame and runs it    *)
(* to the next yield, to the end (StopIteration) or to a raise.            *)
(***************************************************************************)
\* the bound taken one day short
latest_departure_possible_off(end_dt, min_stay_days) == end_dt - min_stay_days - 1

\* line 77: end_dt - timedelta(days=min_stay_days)

latest_departure_possible(end_dt, min_stay_days) == end_dt - min_stay_days

NewGenerator(a) ==
    [started |-> FALSE, current_depart |-> 0, stay |-> 0, start_dt |-> 0, end_dt |-> 0]

\* the while/for loops from the point (depart, stay) of the frame
RECURSIVE gen_resume(_, _, _, _)
gen_resume(a, g, depart, stay) ==
    IF ~(depart <= latest_departure_possible(g.end_dt, a.min_stay_days))
    THEN [kind |-> "stop", g |-> [g EXCEPT !.current_depart = depart, !.stay = stay]]
    ELSE IF stay > a.max_stay_days              \* range(min, max + 1) is used up
    THEN gen_resume(a, g, depart + 1, a.min_stay_days)
    ELSE IF depart + stay <= g.end_dt
    THEN [kind |-> "yield",
          value |-> [departure_date |-> strftime(depart),
                     return_date |-> strftime(depart + stay),
                     stay_duration |-> stay],
          g |-> [g EXCEPT !.current_depart = depart, !.stay = stay]]
    ELSE gen_resume(a, g, depart + 1, a.min_stay_days)      \* break

gen_next(a, g) ==
    IF ~g.started
    THEN IF ~DateParses(a.earliest_departure) \/ ~DateParses(a.latest_return)
         THEN [kind |-> "raise", error |-> "ValueError", g |-> g]
         ELSE LET g1 == [g EXCEPT !.started = TRUE,
                                  !.start_dt = strptime(a.earliest_departure),
                                  !.end_dt = strptime(a.latest_return)]
              IN gen_resume(a, g1, g1.start_dt, a.min_stay_days)
    ELSE gen_resume(a, g, g.current_depart, g.stay + 1)

(***************************************************************************)
(* Python text operations used by web_scraper.py                           *)
(***************************************************************************)
Digits == <<"0", "1", "2", "3", "4", "5", "6", "7", "8", "9">>

IsDigit(c) == \E i \in 1..Len(Digits) : Digits[i] = c

DigitVal(c) == (CHOOSE i \in 1..Len(Digits) : Digits[i] = c) - 1

\* sub in s
Contains(s, sub) ==
    \E i \in 1..(Len(s) - Len(sub) + 1) : SubSeq(s, i, i + Len(sub) - 1) = sub

\* s.find(sub) + 1, and 0 when sub does not occur
FindFirst(s, sub) ==
    IF Contains(s, sub)
    THEN CHOOSE i \in 1..(Len(s) - Len(sub) + 1) :
            /\ SubSeq(s, i, i + Len(sub) - 1) = sub
            /\ \A j \in 1..(i - 1) : SubSeq(s, j, j + Len(sub) - 1) # sub
    ELSE 0

\* s.split(sep), sep not empty
RECURSIVE Split(_, _)
Split(s, sep) ==
    LET i == FindFirst(s, sep) IN
    IF i = 0 THEN <<s>>
    ELSE <<SubSeq(s, 1, i - 1)>> \o Split(SubSeq(s, i + Len(sep), Len(s)), sep)

\* s.strip()
RECURSIVE Strip(_)
Strip(s) ==
    IF s = <<>> THEN s
    ELSE IF Head(s) = " " THEN Strip(Tail(s))
    ELSE IF s[Len(s)] = " " THEN Strip(SubSeq(s, 1, Len(s) - 1))
    ELSE s

RECURSIVE DigitsValue(_)
DigitsValue(s) ==
    IF s = <<>> THEN 0 ELSE 10 * DigitsValue(SubSeq(s, 1, Len(s) - 1)) + DigitVal(s[Len(s)])

\* int(s): surrounding blanks are ignored, an optional sign, then digits only;
\* anything else raises ValueError
ParseInt(s) ==
    LET t == Strip(s)
        neg == t # <<>> /\ Head(t) = "-"
        body == IF t # <<>> /\ Head(t) \in {"-", "+"} THEN Tail(t) ELSE t
    IN IF body # <<>> /\ \A i \in 1..Len(body) : IsDigit(body[i])
       THEN [ok |-> TRUE, v |-> IF neg THEN 0 - DigitsValue(body) ELSE DigitsValue(body)]
       ELSE [ok |-> FALSE, v |-> 0]

\* ''.join(filter(str.isdigit, s))
FilterDigits(s) == SelectSeq(s, IsDigit)

(***************************************************************************)
(* Python values of an offer's "stops" and "duration" entries: an int, a   *)
(* str, None, or no entry under that key.                                  *)
(***************************************************************************)
PyInt(n) == [t |-> "int", n |-> n, s |-> <<>>]
PyStr(s) == [t |-> "str", n |-> 0, s |-> s]
PyNone == [t |-> "none", n |-> 0, s |-> <<>>]
PyAbsent == [t |-> "absent", n |-> 0, s |-> <<>>]

\* dict.get(key, ""): the entry's value, "" when the key is absent
GetOrEmpty(v) == IF v.t = "absent" THEN PyStr(<<>>) ELSE v

\* an optional argument: None, or a value
Unset == [set |-> FALSE, v |-> 0]
UnsetTime == [set |-> FALSE, v |-> [hour |-> 0, minute |-> 0]]
SetTo(v) == [set |-> TRUE, v |-> v]

(***************************************************************************)
(* Extraction of one result node (web_scraper.py:149-171).  A node is the  *)
(* four sub-elements find_element looks up; present = FALSE is a lookup    *)
(* that raises (NoSuchElementException, StaleElementReferenceException).   *)
(***************************************************************************)
Elem(text) == [present |-> TRUE, text |-> text]
NoElem == [present |-> FALSE, text |-> <<>>]

Nonstop == <<"N", "o", "n", "s", "t", "o", "p">>

\* stops = 0 if "Nonstop" in stops_text else int(stops_text.split(" ")[0])
ParseStops(stops_text) ==
    IF Contains(stops_text, Nonstop) THEN [ok |-> TRUE, v |-> 0]
    ELSE ParseInt(Split(stops_text, <<" ">>)[1])

\* the body of the try block for one node: the offer, or ok = FALSE when any
\* statement of it raises
ExtractNode(flight, departure_date, return_date) ==
    LET price == ParseInt(FilterDigits(flight.price.text))
        stops == ParseStops(flight.stops.text)
    IN IF /\ flight.airline.present
          /\ flight.duration.present
          /\ flight.price.present
          /\ price.ok
          /\ flight.stops.present
          /\ stops.ok
       THEN [ok |-> TRUE,
             offer |-> [airline |-> flight.airline.text,
                        departure_date |-> departure_date,
                        return_date |-> return_date,
                        price |-> price.v,
                        duration |-> PyStr(flight.duration.text),
                        stops |-> PyInt(stops.v)]]
       ELSE [ok |-> FALSE]

\* except Exception: the partial result is thrown away with the rest
ExtractIterationDiscarding(flights_data_, flight, departure_date, return_date) ==
    LET r == ExtractNode(flight, departure_date, return_date) IN
    IF r.ok THEN Append(flights_data_, r.offer) ELSE <<>>

\* one iteration of "for flight in flight_elements": append, or continue
ExtractIteration(flights_data_, flight, departure_date, return_date) ==
    LET r == ExtractNode(flight, departure_date, return_date) IN
    IF r.ok THEN Append(flights_data_, r.offer) ELSE flights_data_

\* the whole loop over flight_elements[i..]
RECURSIVE ExtractLoop(_, _, _, _, _)
ExtractLoop(flights_data_, elements, i, departure_date, return_date) ==
    IF i > Len(elements) THEN flights_data_
    ELSE ExtractLoop(ExtractIteration(flights_data_, elements[i], departure_date, return_date),
                     elements, i + 1, departure_date, return_date)

(***************************************************************************)
(* flight_data_filter (web_scraper.py:183-219)                             *)
(***************************************************************************)
\* datetime.time(hour, minute): ValueError outside 0..23 / 0..59
TimeOk(hour, minute) == hour \in 0..23 /\ minute \in 0..59

TimeGreater(a, b) == a.hour > b.hour \/ (a.hour = b.hour /\ a.minute > b.minute)

\* the max_stops block with the TypeError passed over instead of "continue"
StopsRejectsOnlyLarger(stops, max_stops) ==
    max_stops.set /\ stops.t = "int" /\ stops.n > max_stops.v

\* the max_stops block without its "is not None" guard
StopsRejectsAlways(stops, max_stops) ==
    \/ stops.t # "int"
    \/ (max_stops.set /\ stops.n > max_stops.v)

\* the max_stops block: TRUE when the loop continues to the next flight
StopsRejects(stops, max_stops) ==
    /\ max_stops.set
    /\ \/ stops.t # "int"              \* stops > max_stops raises TypeError
       \/ stops.n > max_stops.v

\* the try block of the max_duration filter: the parsed time, or ok = FALSE
ParseDuration(duration_str) ==
    IF duration_str.t # "str" THEN [ok |-> FALSE]      \* 'h' in None raises
    ELSE
    LET s0 == duration_str.s
        hasH == Contains(s0, <<"h">>)
        hours == IF hasH THEN ParseInt(Strip(Split(s0, <<" ">>)[1])) ELSE [ok |-> TRUE, v |-> 0]
        parts == Split(s0, <<"h", "r", " ">>)
        restOk == ~hasH \/ Len(parts) >= 2              \* [1] raises IndexError
        s1 == IF hasH /\ restOk THEN Strip(parts[2]) ELSE s0
        hasM == Contains(s1, <<"m">>)
        minutes == IF hasM THEN ParseInt(Strip(Split(s1, <<" ">>)[1])) ELSE [ok |-> TRUE, v |-> 0]
    IN IF hours.ok /\ restOk /\ minutes.ok /\ TimeOk(hours.v, minutes.v)
       THEN [ok |-> TRUE, hour |-> hours.v, minute |-> minutes.v]
       ELSE [ok |-> FALSE]

DurationRejects(duration_str, max_duration) ==
    /\ max_duration.set
    /\ LET d == ParseDuration(duration_str) IN
          \/ ~d.ok
          \/ TimeGreater(d, max_duration.v)

\* the loop body's verdict on one flight
Keeps(flight, max_stops, max_duration) ==
    /\ ~StopsRejects(GetOrEmpty(flight.stops), max_stops)
    /\ ~DurationRejects(GetOrEmpty(flight.duration), max_duration)

\* filtered_data[1:top_n]
SliceFromSecond(seq, n) ==
    IF n >= 0 THEN SubSeq(seq, 2, IF n < Len(seq) THEN n ELSE Len(seq))
    ELSE SubSeq(seq, 2, Len(seq) + n)

\* filtered_data[:top_n]
SliceTo(seq, n) ==
    IF n >= 0 THEN SubSeq(seq, 1, IF n < Len(seq) THEN n ELSE Len(seq))
    ELSE SubSeq(seq, 1, Len(seq) + n)

flight_data_filter(flights_data_, max_stops, max_duration, top_n) ==
    LET filtered_data == SelectSeq(flights_data_, LAMBDA f : Keeps(f, max_stops, max_duration))
    IN IF top_n.set THEN SliceTo(filtered_data, top_n.v) ELSE filtered_data

(***************************************************************************)
(* Inputs of the generator                                                 *)
(***************************************************************************)
GoodDateStrings == {strftime(strptime(BaseDate) + i) : i \in 0..MaxSpan}

BadDateStrings == {<<2026, 2, 30>>, <<2026, 13, 1>>}

DateStrings == GoodDateStrings \cup BadDateStrings

GenArgs ==
    [earliest_departure : DateStrings, latest_return : DateStrings,
     min_stay_days : 0..MaxStay, max_stay_days : 0..MaxStay]

\* the variables of a component that a specification does not run
ParkGen ==
    /\ gen_args = [earliest_departure |-> BaseDate, latest_return |-> BaseDate,
                   min_stay_days |-> 0, max_stay_days |-> 0]
    /\ gen = NewGenerator(gen_args)
    /\ gen_status = "exhausted"
    /\ yielded = <<>>

ParkFilter ==
    /\ flt_in = <<>>
    /\ flt_crit = [max_stops |-> Unset, max_duration |-> UnsetTime, top_n |-> Unset]
    /\ flt_out = <<>>
    /\ flt_out2 = <<>>
    /\ flt_pc = "twice"

ParkScrape ==
    /\ pc = "done"
    /\ call_args = [departure_date |-> BaseDate, return_date |-> BaseDate,
                    cheapest_flights_option |-> FALSE, more_flights |-> FALSE]
    /\ acquired = 0
    /\ released = 0
    /\ flight_elements = <<>>
    /\ idx = 1
    /\ flights_data = <<>>
    /\ pending = <<>>
    /\ outcome = [kind |-> "none", value |-> <<>>]
    /\ fault = "none"
    /\ soft_faults = {}
    /\ steps = <<>>
    /\ calls = MaxCalls

NoSearch ==
    [id |-> 0,
     params |-> [origin |-> "", destination |-> "",
                 earliest_departure |-> BaseDate, latest_return |-> BaseDate,
                 min_stay_days |-> 0, max_stay_days |-> 0,
                 max_stops |-> 0, max_duration_hours |-> 0]]

NoCombo == [departure_date |-> BaseDate, return_date |-> BaseDate, stay_duration |-> 0]

NewRouteLog(rows) == [events |-> <<>>, fetched |-> <<>>, rows_before |-> rows]

ParkTracker ==
    /\ t_pc = "finished"
    /\ search_configs = <<>>
    /\ route_i = 0
    /\ searches = <<>>
    /\ search = NoSearch
    /\ date_combos = NewGenerator(NoSearch.params)
    /\ date_combo = NoCombo
    /\ flight_data = <<>>
    /\ n_combos = 0
    /\ price_history = <<>>
    /\ t_error = "none"
    /\ route_log = NewRouteLog(0)

InitGen ==
    /\ gen_args \in GenArgs
    /\ gen = NewGenerator(gen_args)
    /\ gen_status = "suspended"
    /\ yielded = <<>>
    /\ ParkFilter
    /\ ParkScrape
    /\ ParkTracker

\* for date_combo in date_combos: one next() that yields
GenYield ==
    /\ gen_status = "suspended"
    /\ LET r == gen_next(gen_args, gen) IN
        /\ r.kind = "yield"
        /\ gen' = r.g
        /\ yielded' = Append(yielded, r.value)
        /\ UNCHANGED <<gen_args, gen_status, fltvars, scrvars, trkvars>>

\* next() runs off the end of the body: StopIteration
GenStop ==
    /\ gen_status = "suspended"
    /\ LET r == gen_next(gen_args, gen) IN
        /\ r.kind = "stop"
        /\ gen' = r.g
        /\ gen_status' = "exhausted"
        /\ UNCHANGED <<gen_args, yielded, fltvars, scrvars, trkvars>>

\* the first next() raises out of strptime
GenRaise ==
    /\ gen_status = "suspended"
    /\ LET r == gen_next(gen_args, gen) IN
        /\ r.kind = "raise"
        /\ gen_status' = r.error
        /\ UNCHANGED <<gen_args, gen, yielded, fltvars, scrvars, trkvars>>

NextGen == GenYield \/ GenStop \/ GenRaise

SpecGen == InitGen /\ [][NextGen]_vars

(***************************************************************************)
(* flight_data_filter applied to a list of offers, and again to its result *)
(***************************************************************************)
T_2h30 == <<"2", " ", "h", "r", " ", "3", "0", " ", "m", "i", "n">>
T_45m == <<"4", "5", " ", "m", "i", "n">>
T_5h == <<"5", " ", "h", "r">>
T_junk == <<"a", "b", "c">>
T_LH == <<"L", "H">>

SampleOffer(price, duration, stops) ==
    [airline |-> T_LH, departure_date |-> BaseDate, return_date |-> BaseDate,
     price |-> price, duration |-> duration, stops |-> stops]

\* offers as the extraction makes them, and dicts with odd or missing entries
OfferPool ==
    {SampleOffer(120, PyStr(T_2h30), PyInt(0)),
     SampleOffer(90, PyStr(T_45m), PyInt(1)),
     SampleOffer(75, PyStr(T_5h), PyInt(2)),
     SampleOffer(60, PyStr(T_junk), PyNone),
     SampleOffer(50, PyAbsent, PyAbsent)}

RECURSIVE SeqsUpTo(_, _)
SeqsUpTo(S, n) ==
    IF n = 0 THEN {<<>>}
    ELSE LET shorter == SeqsUpTo(S, n - 1)
         IN shorter \cup {Append(q, x) : q \in shorter, x \in S}

MaxStopsChoices == {Unset} \cup {SetTo(n) : n \in -1..1}

MaxDurationChoices ==
    {UnsetTime, SetTo([hour |-> 0, minute |-> 50]), SetTo([hour |-> 3, minute |-> 0]),
     SetTo([hour |-> 6, minute |-> 0])}

TopNChoices == {Unset} \cup {SetTo(n) : n \in (0 - MaxTopN)..MaxTopN}

InitFilter ==
    /\ flt_in \in SeqsUpTo(OfferPool, MaxOffers)
    /\ flt_crit \in [max_stops : MaxStopsChoices, max_duration : MaxDurationChoices,
                     top_n : TopNChoices]
    /\ flt_out = <<>>
    /\ flt_out2 = <<>>
    /\ flt_pc = "start"
    /\ ParkGen
    /\ ParkScrape
    /\ ParkTracker

FilterCall ==
    /\ flt_pc = "start"
    /\ flt_out' = flight_data_filter(flt_in, flt_crit.max_stops, flt_crit.max_duration,
                                     flt_crit.top_n)
    /\ flt_pc' = "once"
    /\ UNCHANGED <<flt_in, flt_crit, flt_out2, genvars, scrvars, trkvars>>

FilterAgain ==
    /\ flt_pc = "once"
    /\ flt_out2' = flight_data_filter(flt_out, flt_crit.max_stops, flt_crit.max_duration,
                                      flt_crit.top_n)
    /\ flt_pc' = "twice"
    /\ UNCHANGED <<flt_in, flt_crit, flt_out, genvars, scrvars, trkvars>>

NextFilter == FilterCall \/ FilterAgain

SpecFilter == InitFilter /\ [][NextFilter]_vars

(***************************************************************************)
(* scrape_google_flights (web_scraper.py:67-180), statement by statement.  *)
(* What the browser and the page do at each step is the environment's      *)
(* choice.                                                                 *)
(***************************************************************************)
T_price1234 == <<"$", " ", "1", ",", "2", "3", "4">>
T_price99 == <<"9", "9">>
T_noprice == <<"n", "/", "a">>
T_1stop == <<"1", " ", "s", "t", "o", "p">>
T_2stops == <<"2", " ", "s", "t", "o", "p", "s">>

RawNode(airline, duration, price, stops) ==
    [airline |-> airline, duration |-> duration, price |-> price, stops |-> stops]

NodeFull == RawNode(Elem(T_LH), Elem(T_2h30), Elem(T_price1234), Elem(Nonstop))
NodePlain == RawNode(Elem(<<>>), Elem(T_45m), Elem(T_price99), Elem(T_1stop))
NodeNoPrice == RawNode(Elem(T_LH), Elem(T_45m), Elem(T_noprice), Elem(Nonstop))
NodeBadStops == RawNode(Elem(T_LH), Elem(T_2h30), Elem(T_price99), Elem(T_junk))
NodeNoAirline == RawNode(NoElem, Elem(T_5h), Elem(T_price99), Elem(T_2stops))

NodePool == {NodeFull, NodePlain, NodeNoPrice, NodeBadStops, NodeNoAirline}

\* presence_of_all_elements_located gives at least one element
Pages == SeqsUpTo(NodePool, MaxNodes) \ {<<>>}

CallArgs ==
    [departure_date : {BaseDate}, return_date : {strftime(strptime(BaseDate) + 3)},
     cheapest_flights_option : BOOLEAN, more_flights : BOOLEAN]

Returned(v) == [kind |-> "return", value |-> v]
Raised == [kind |-> "raise", value |-> <<>>]

\* the call as one function of what the environment does to it: env.page is
\* <<>> when no result node shows up within the wait
scrape_google_flights(env, departure_date, return_date) ==
    IF ~env.driver_ok \/ ~env.timeout_ok THEN Raised
    ELSE IF ~env.nav_ok \/ env.page = <<>> THEN Returned(<<>>)
    ELSE Returned(ExtractLoop(<<>>, env.page, 1, departure_date, return_date))

InitScrape ==
    /\ pc = "idle"
    /\ call_args \in CallArgs
    /\ acquired = 0
    /\ released = 0
    /\ flight_elements = <<>>
    /\ idx = 1
    /\ flights_data = <<>>
    /\ pending = <<>>
    /\ outcome = [kind |-> "none", value |-> <<>>]
    /\ fault = "none"
    /\ soft_faults = {}
    /\ steps = <<>>
    /\ calls = 0
    /\ ParkGen
    /\ ParkFilter
    /\ ParkTracker

\* the caller enters scrape_google_flights (lines 75-82 build the options)
Call ==
    /\ pc \in {"idle", "done"}
    /\ calls < MaxCalls
    /\ pc' = "create_driver"
    /\ call_args' \in CallArgs
    /\ flight_elements' = <<>>
    /\ idx' = 1
    /\ flights_data' = <<>>
    /\ pending' = <<>>
    /\ outcome' = [kind |-> "none", value |-> <<>>]
    /\ fault' = "none"
    /\ soft_faults' = {}
    /\ steps' = <<>>
    /\ UNCHANGED <<acquired, released, calls, genvars, fltvars, trkvars>>

\* lines 89-94: webdriver.Chrome(...) starts the browser
CreateDriverOk ==
    /\ pc = "create_driver"
    /\ acquired' = acquired + 1
    /\ pc' = "set_timeout"
    /\ UNCHANGED <<call_args, released, flight_elements, idx, flights_data, pending,
                   outcome, fault, soft_faults, steps, calls, genvars, fltvars, trkvars>>

\* webdriver.Chrome(...) raises: outside the try, the call raises
CreateDriverFails ==
    /\ pc = "create_driver"
    /\ fault' = "driver_start"
    /\ outcome' = Raised
    /\ pc' = "done"
    /\ calls' = calls + 1
    /\ UNCHANGED <<call_args, acquired, released, flight_elements, idx, flights_data,
                   pending, soft_faults, steps, genvars, fltvars, trkvars>>

\* line 96: driver.set_page_load_timeout(60), then flights_data = []
SetTimeoutOk ==
    /\ pc = "set_timeout"
    /\ flights_data' = <<>>
    /\ pc' = "navigate"
    /\ UNCHANGED <<call_args, acquired, released, flight_elements, idx, pending,
                   outcome, fault, soft_faults, steps, calls, genvars, fltvars, trkvars>>

\* line 96 raises: still outside the try, so neither except nor finally runs
SetTimeoutFails ==
    /\ pc = "set_timeout"
    /\ fault' = "set_timeout"
    /\ outcome' = Raised
    /\ pc' = "done"
    /\ calls' = calls + 1
    /\ UNCHANGED <<call_args, acquired, released, flight_elements, idx, flights_data,
                   pending, soft_faults, steps, genvars, fltvars, trkvars>>

\* lines 101-103: driver.get(url)
NavigateOk ==
    /\ pc = "navigate"
    /\ steps' = Append(steps, "navigate")
    /\ pc' = "consent"
    /\ UNCHANGED <<call_args, acquired, released, flight_elements, idx, flights_data,
                   pending, outcome, fault, soft_faults, calls, genvars, fltvars, trkvars>>

\* driver.get raises (timeout, crash): except at 176 logs and returns []
NavigateFails ==
    /\ pc = "navigate"
    /\ steps' = Append(steps, "navigate")
    /\ fault' = "navigation"
    /\ pending' = <<>>
    /\ pc' = "finally"
    /\ UNCHANGED <<call_args, acquired, released, flight_elements, idx, flights_data,
                   outcome, soft_faults, calls, genvars, fltvars, trkvars>>

\* the consent block without its except: an exception reaches the outer one
ConsentPropagates ==
    /\ pc = "consent"
    /\ steps' = Append(steps, "consent")
    /\ \E raises \in BOOLEAN :
          IF raises
          THEN /\ fault' = "consent"
               /\ pending' = <<>>
               /\ pc' = "finally"
          ELSE /\ pc' = "popups"
               /\ UNCHANGED <<fault, pending>>
    /\ UNCHANGED <<call_args, acquired, released, flight_elements, idx, flights_data,
                   outcome, soft_faults, calls, genvars, fltvars, trkvars>>

\* lines 106-112: consent screen, any exception passed over
Consent ==
    /\ pc = "consent"
    /\ steps' = Append(steps, "consent")
    /\ \E raises \in BOOLEAN :
          soft_faults' = IF raises THEN soft_faults \cup {"consent"} ELSE soft_faults
    /\ pc' = "popups"
    /\ UNCHANGED <<call_args, acquired, released, flight_elements, idx, flights_data,
                   pending, outcome, fault, calls, genvars, fltvars, trkvars>>

\* lines 115-125: pop-ups, any exception passed over
Popups ==
    /\ pc = "popups"
    /\ steps' = Append(steps, "popups")
    /\ \E raises \in BOOLEAN :
          soft_faults' = IF raises THEN soft_faults \cup {"popups"} ELSE soft_faults
    /\ pc' = "sort"
    /\ UNCHANGED <<call_args, acquired, released, flight_elements, idx, flights_data,
                   pending, outcome, fault, calls, genvars, fltvars, trkvars>>

\* lines 128-134: sort by cheapest when asked for, a failure only logged
Sort ==
    /\ pc = "sort"
    /\ IF call_args.cheapest_flights_option
       THEN /\ steps' = Append(steps, "sort")
            /\ \E raises \in BOOLEAN :
                  soft_faults' = IF raises THEN soft_faults \cup {"sort"} ELSE soft_faults
       ELSE UNCHANGED <<steps, soft_faults>>
    /\ pc' = "view_more"
    /\ UNCHANGED <<call_args, acquired, released, flight_elements, idx, flights_data,
                   pending, outcome, fault, calls, genvars, fltvars, trkvars>>

\* lines 137-144: view more when asked for, any exception passed over
ViewMore ==
    /\ pc = "view_more"
    /\ IF call_args.more_flights
       THEN /\ steps' = Append(steps, "view_more")
            /\ \E raises \in BOOLEAN :
                  soft_faults' = IF raises THEN soft_faults \cup {"view_more"} ELSE soft_faults
       ELSE UNCHANGED <<steps, soft_faults>>
    /\ pc' = "wait"
    /\ UNCHANGED <<call_args, acquired, released, flight_elements, idx, flights_data,
                   pending, outcome, fault, calls, genvars, fltvars, trkvars>>

\* line 147: result nodes are present within the wait
WaitFinds ==
    /\ pc = "wait"
    /\ steps' = Append(steps, "wait")
    /\ flight_elements' \in Pages
    /\ idx' = 1
    /\ pc' = "extract"
    /\ UNCHANGED <<call_args, acquired, released, flights_data, pending, outcome, fault,
                   soft_faults, calls, genvars, fltvars, trkvars>>

\* line 147 raises TimeoutException: except at 176 logs and returns []
WaitTimesOut ==
    /\ pc = "wait"
    /\ steps' = Append(steps, "wait")
    /\ fault' = "data_wait"
    /\ pending' = <<>>
    /\ pc' = "finally"
    /\ UNCHANGED <<call_args, acquired, released, flight_elements, idx, flights_data,
                   outcome, soft_faults, calls, genvars, fltvars, trkvars>>

\* lines 149-171: one iteration of the for loop
ExtractOne ==
    /\ pc = "extract"
    /\ idx <= Len(flight_elements)
    /\ flights_data' = ExtractIteration(flights_data, flight_elements[idx],
                                        call_args.departure_date, call_args.return_date)
    /\ idx' = idx + 1
    /\ UNCHANGED <<pc, call_args, acquired, released, flight_elements, pending, outcome,
                   fault, soft_faults, steps, calls, genvars, fltvars, trkvars>>

\* lines 173-174: the loop is over, return flights_data
ExtractDone ==
    /\ pc = "extract"
    /\ idx > Len(flight_elements)
    /\ steps' = Append(steps, "extract")
    /\ pending' = flights_data
    /\ pc' = "finally"
    /\ UNCHANGED <<call_args, acquired, released, flight_elements, idx, flights_data,
                   outcome, fault, soft_faults, calls, genvars, fltvars, trkvars>>

\* lines 179-180: finally driver.quit(), then the return takes effect
Finally ==
    /\ pc = "finally"
    /\ released' = released + 1
    /\ outcome' = Returned(pending)
    /\ pc' = "done"
    /\ calls' = calls + 1
    /\ UNCHANGED <<call_args, acquired, flight_elements, idx, flights_data, pending,
                   fault, soft_faults, steps, genvars, fltvars, trkvars>>

NextScrape ==
    \/ Call
    \/ CreateDriverOk \/ CreateDriverFails
    \/ SetTimeoutOk \/ SetTimeoutFails
    \/ NavigateOk \/ NavigateFails
    \/ Consent \/ Popups \/ Sort \/ ViewMore
    \/ WaitFinds \/ WaitTimesOut
    \/ ExtractOne \/ ExtractDone
    \/ Finally

SpecScrape == InitScrape /\ [][NextScrape]_vars

(***************************************************************************)
(* run_tracker (main.py:122-171) with get_or_create_search (main.py:43-62) *)
(* and get_flight_data (web_scraper.py:222-237)                            *)
(***************************************************************************)
TopN == 3

get_flight_data(env, depature_date, return_date, max_stops, max_duration, top_n) ==
    LET data == scrape_google_flights(env, depature_date, return_date) IN
    IF data.kind = "raise" THEN Raised
    ELSE Returned(flight_data_filter(data.value, max_stops, max_duration, top_n))

\* primary key of a new row: one more than the largest id in the table
NextId(table) ==
    IF table = <<>> THEN 1
    ELSE 1 + (CHOOSE m \in {table[i].id : i \in 1..Len(table)} :
                 \A i \in 1..Len(table) : table[i].id <= m)

\* the lookup left out: add and commit on every call
get_or_create_search_always_adds(table, kwargs) ==
    LET instance == [id |-> NextId(table), params |-> kwargs]
    IN [instance |-> instance, table |-> Append(table, instance)]

\* session.query(Search).filter_by(**kwargs).first(), else add and commit
get_or_create_search(table, kwargs) ==
    LET found == {i \in 1..Len(table) : table[i].params = kwargs} IN
    IF found # {}
    THEN [instance |-> table[CHOOSE i \in found : \A j \in found : i <= j],
          table |-> table]
    ELSE LET instance == [id |-> NextId(table), params |-> kwargs]
         IN [instance |-> instance, table |-> Append(table, instance)]

\* pd.DataFrame(flight_data) with the column search_id added
new_data(flight_data_, search_id) ==
    [i \in 1..Len(flight_data_) |->
        [airline |-> flight_data_[i].airline,
         departure_date |-> flight_data_[i].departure_date,
         return_date |-> flight_data_[i].return_date,
         price |-> flight_data_[i].price,
         duration |-> flight_data_[i].duration,
         stops |-> flight_data_[i].stops,
         search_id |-> search_id]]

\* to_sql(..., if_exists='replace')
to_sql_replace(table, rows) == rows

\* to_sql('price_history', con=engine, if_exists='append', index=False)
to_sql(table, rows) == table \o rows

Route(origin, destination, earliest, latest, min_stay, max_stay, max_stops, hours) ==
    [origin |-> origin, destination |-> destination,
     earliest_departure |-> earliest, latest_return |-> latest,
     min_stay_days |-> min_stay, max_stay_days |-> max_stay,
     max_stops |-> max_stops, max_duration_hours |-> hours]

RouteGood == Route("VIE", "LHR", <<2026, 2, 27>>, <<2026, 3, 1>>, 1, 1, 1, 12)
RouteDirect == Route("VIE", "JFK", <<2026, 2, 26>>, <<2026, 2, 28>>, 2, 3, 0, 2)
RouteBadDate == Route("VIE", "CDG", <<2026, 2, 27>>, <<2026, 2, 30>>, 1, 1, 1, 12)
RouteBadHours == Route("VIE", "NRT", <<2026, 2, 27>>, <<2026, 2, 28>>, 1, 1, 1, 24)

\* RouteGood with another max_stops: a different search
RouteGoodNonstop == [RouteGood EXCEPT !.max_stops = 0]

RoutePool == {RouteGood, RouteGoodNonstop, RouteDirect, RouteBadDate, RouteBadHours}

\* result pages the fetches of a run may meet
TrackerPages ==
    {<<NodeFull, NodeNoPrice, NodePlain>>,
     <<NodePlain>>,
     <<NodeFull, NodePlain, NodePlain, NodeFull>>,
     <<NodeBadStops>>}

FetchEnvs ==
    [driver_ok : BOOLEAN, timeout_ok : BOOLEAN, nav_ok : BOOLEAN,
     page : TrackerPages \cup {<<>>}]

InitTracker ==
    /\ t_pc = "start"
    /\ search_configs \in SeqsUpTo(RoutePool, MaxRoutes)
    /\ route_i = 0
    /\ searches \in {<<>>, <<[id |-> 1, params |-> RouteGood]>>}
    /\ search = NoSearch
    /\ date_combos = NewGenerator(NoSearch.params)
    /\ date_combo = NoCombo
    /\ flight_data = <<>>
    /\ n_combos = 0
    /\ price_history = <<>>
    /\ t_error = "none"
    /\ route_log = NewRouteLog(0)
    /\ ParkGen
    /\ ParkFilter
    /\ ParkScrape

\* lines 123-129: Session(), load_searches
TrackerStart ==
    /\ t_pc = "start"
    /\ t_pc' = "next_route"
    /\ UNCHANGED <<search_configs, route_i, searches, search, date_combos, date_combo,
                   flight_data, n_combos, price_history, t_error, route_log,
                   genvars, fltvars, scrvars>>

\* lines 131-143: the next route: resolve or create its search, make the
\* generator object, reset the counter
RouteStart ==
    /\ t_pc = "next_route"
    /\ route_i < Len(search_configs)
    /\ route_i' = route_i + 1
    /\ LET r == get_or_create_search(searches, search_configs[route_i + 1]) IN
          /\ searches' = r.table
          /\ search' = r.instance
          /\ date_combos' = NewGenerator(r.instance.params)
    /\ n_combos' = 0
    /\ route_log' = [NewRouteLog(Len(price_history)) EXCEPT !.events = <<"resolve">>]
    /\ t_pc' = "next_combo"
    /\ UNCHANGED <<search_configs, date_combo, flight_data, price_history, t_error,
                   genvars, fltvars, scrvars>>

\* line 134 raises (the database is locked or unreachable): caught at 170
RouteStartFails ==
    /\ t_pc = "next_route"
    /\ route_i < Len(search_configs)
    /\ route_i' = route_i + 1
    /\ route_log' = [NewRouteLog(Len(price_history)) EXCEPT !.events = <<"resolve">>]
    /\ t_error' = "get_or_create_search"
    /\ t_pc' = "failed"
    /\ UNCHANGED <<search_configs, searches, search, date_combos, date_combo,
                   flight_data, n_combos, price_history, genvars, fltvars, scrvars>>

\* line 168: search_configs is used up
RunCompleted ==
    /\ t_pc = "next_route"
    /\ route_i = Len(search_configs)
    /\ t_pc' = "finished"
    /\ UNCHANGED <<search_configs, route_i, searches, search, date_combos, date_combo,
                   flight_data, n_combos, price_history, t_error, route_log,
                   genvars, fltvars, scrvars>>

\* line 144: the generator yields the next combination
NextComboYield ==
    /\ t_pc = "next_combo"
    /\ LET r == gen_next(search.params, date_combos) IN
          /\ r.kind = "yield"
          /\ date_combos' = r.g
          /\ date_combo' = r.value
    /\ t_pc' = "fetch"
    /\ UNCHANGED <<search_configs, route_i, searches, search, flight_data, n_combos,
                   price_history, t_error, route_log, genvars, fltvars, scrvars>>

\* line 144: the generator is exhausted, the inner loop ends
NextComboStop ==
    /\ t_pc = "next_combo"
    /\ LET r == gen_next(search.params, date_combos) IN
          /\ r.kind = "stop"
          /\ date_combos' = r.g
    /\ t_pc' = "route_done"
    /\ UNCHANGED <<search_configs, route_i, searches, search, date_combo, flight_data,
                   n_combos, price_history, t_error, route_log, genvars, fltvars, scrvars>>

\* line 144: the generator's first next() raises ValueError: caught at 170
NextComboRaise ==
    /\ t_pc = "next_combo"
    /\ gen_next(search.params, date_combos).kind = "raise"
    /\ t_error' = "strptime"
    /\ t_pc' = "failed"
    /\ UNCHANGED <<search_configs, route_i, searches, search, date_combos, date_combo,
                   flight_data, n_combos, price_history, route_log,
                   genvars, fltvars, scrvars>>

\* line 154: dt_time(hour=search.max_duration_hours, minute=0) raises
\* ValueError before get_flight_data is entered: caught at 170
FetchBadDuration ==
    /\ t_pc = "fetch"
    /\ ~TimeOk(search.params.max_duration_hours, 0)
    /\ t_error' = "dt_time"
    /\ t_pc' = "failed"
    /\ UNCHANGED <<search_configs, route_i, searches, search, date_combos, date_combo,
                   flight_data, n_combos, price_history, route_log,
                   genvars, fltvars, scrvars>>

\* the get_flight_data call without top_n=3
FetchResultUncut(env) ==
    get_flight_data(env, date_combo.departure_date, date_combo.return_date,
                    SetTo(search.params.max_stops),
                    SetTo([hour |-> search.params.max_duration_hours, minute |-> 0]),
                    Unset)

\* lines 145-156: the call with the route's criteria and top_n=3
FetchResult(env) ==
    get_flight_data(env, date_combo.departure_date, date_combo.return_date,
                    SetTo(search.params.max_stops),
                    SetTo([hour |-> search.params.max_duration_hours, minute |-> 0]),
                    SetTo(TopN))

\* the nodes a fetch found, none when navigation failed
NodesFetched(env) == IF env.nav_ok THEN env.page ELSE <<>>

\* lines 145-156: get_flight_data returns a list
FetchReturns ==
    /\ t_pc = "fetch"
    /\ TimeOk(search.params.max_duration_hours, 0)
    /\ \E env \in FetchEnvs :
          /\ FetchResult(env).kind = "return"
          /\ flight_data' = FetchResult(env).value
          /\ route_log' = [route_log EXCEPT !.events = Append(@, "fetch"),
                                            !.fetched = Append(@, NodesFetched(env))]
    /\ t_pc' = "persist"
    /\ UNCHANGED <<search_configs, route_i, searches, search, date_combos, date_combo,
                   n_combos, price_history, t_error, genvars, fltvars, scrvars>>

\* lines 145-156: get_flight_data raises: caught at 170
FetchRaises ==
    /\ t_pc = "fetch"
    /\ TimeOk(search.params.max_duration_hours, 0)
    /\ \E env \in FetchEnvs : FetchResult(env).kind = "raise"
    /\ route_log' = [route_log EXCEPT !.events = Append(@, "fetch")]
    /\ t_error' = "get_flight_data"
    /\ t_pc' = "failed"
    /\ UNCHANGED <<search_configs, route_i, searches, search, date_combos, date_combo,
                   flight_data, n_combos, price_history, genvars, fltvars, scrvars>>

\* lines 158-162: the list is not empty and is appended to price_history
PersistAppend ==
    /\ t_pc = "persist"
    /\ flight_data # <<>>
    /\ price_history' = to_sql(price_history, new_data(flight_data, search.id))
    /\ n_combos' = n_combos + 1
    /\ t_pc' = "next_combo"
    /\ UNCHANGED <<search_configs, route_i, searches, search, date_combos, date_combo,
                   flight_data, t_error, route_log, genvars, fltvars, scrvars>>

\* line 161 raises: caught at 170
PersistFails ==
    /\ t_pc = "persist"
    /\ flight_data # <<>>
    /\ t_error' = "to_sql"
    /\ t_pc' = "failed"
    /\ UNCHANGED <<search_configs, route_i, searches, search, date_combos, date_combo,
                   flight_data, n_combos, price_history, route_log,
                   genvars, fltvars, scrvars>>

\* lines 163-164: an empty list: continue
PersistSkip ==
    /\ t_pc = "persist"
    /\ flight_data = <<>>
    /\ t_pc' = "next_combo"
    /\ UNCHANGED <<search_configs, route_i, searches, search, date_combos, date_combo,
                   flight_data, n_combos, price_history, t_error, route_log,
                   genvars, fltvars, scrvars>>

\* line 166: the route's summary is logged, on to the next route
RouteComplete ==
    /\ t_pc = "route_done"
    /\ t_pc' = "next_route"
    /\ UNCHANGED <<search_configs, route_i, searches, search, date_combos, date_combo,
                   flight_data, n_combos, price_history, t_error, route_log,
                   genvars, fltvars, scrvars>>

NextTracker ==
    \/ TrackerStart
    \/ RouteStart \/ RouteStartFails \/ RunCompleted
    \/ NextComboYield \/ NextComboStop \/ NextComboRaise
    \/ FetchBadDuration \/ FetchReturns \/ FetchRaises
    \/ PersistAppend \/ PersistFails \/ PersistSkip
    \/ RouteComplete

SpecTracker == InitTracker /\ [][NextTracker]_vars

(***************************************************************************)
(* Properties of generate_date_combinations                                *)
(***************************************************************************)
ValidGenArgs(a) ==
    /\ DateParses(a.earliest_departure) /\ DateParses(a.latest_return)
    /\ strptime(a.earliest_departure) <= strptime(a.latest_return)
    /\ 0 <= a.min_stay_days /\ a.min_stay_days <= a.max_stay_days

\* the reference enumeration, as <<departure, return, stay>> day ordinals
ReferenceSet(a) ==
    {t \in {<<d, d + s, s>> : d \in strptime(a.earliest_departure)..strptime(a.latest_return),
                              s \in a.min_stay_days..a.max_stay_days} :
        t[2] <= strptime(a.latest_return)}

AsOrdinals(y) == <<strptime(y.departure_date), strptime(y.return_date), y.stay_duration>>

YieldedAscending ==
    \A i \in 1..Len(yielded) : \A j \in 1..Len(yielded) :
        i < j => \/ AsOrdinals(yielded[i])[1] < AsOrdinals(yielded[j])[1]
                 \/ /\ AsOrdinals(yielded[i])[1] = AsOrdinals(yielded[j])[1]
                    /\ yielded[i].stay_duration < yielded[j].stay_duration

\* C1: for every valid input the sequence yielded by generate_date_combinations
\* is the reference enumeration: only pairs (departure, departure + stay) with
\* departure >= earliest_departure, min_stay <= stay <= max_stay and
\* departure + stay <= latest_return (inclusive), in ascending order of
\* departure and then of stay, hence each at most once; and when the generator
\* is exhausted every such pair has been yielded (the break omits none).
C1_GeneratorIsReference ==
    ValidGenArgs(gen_args) =>
        /\ gen_status \in {"suspended", "exhausted"}
        /\ \A i \in 1..Len(yielded) :
              /\ DateParses(yielded[i].departure_date)
              /\ DateParses(yielded[i].return_date)
              /\ AsOrdinals(yielded[i]) \in ReferenceSet(gen_args)
        /\ YieldedAscending
        /\ gen_status = "exhausted" =>
              /\ {AsOrdinals(yielded[i]) : i \in 1..Len(yielded)} = ReferenceSet(gen_args)
              /\ Len(yielded) = Cardinality(ReferenceSet(gen_args))

\* C1 witness: an exhausted generator over a valid input that yielded a pair
\* returning exactly on latest_return, across a month boundary, and that left a
\* departure date by the break (a stay within range overflowed the deadline).
C1_Witness ==
    /\ ValidGenArgs(gen_args)
    /\ gen_status = "exhausted"
    /\ Len(yielded) >= 3
    /\ \E i \in 1..Len(yielded) :
          /\ yielded[i].return_date = gen_args.latest_return
          /\ yielded[i].departure_date[2] # yielded[i].return_date[2]
          /\ yielded[i].stay_duration < gen_args.max_stay_days

\* C5: generate_date_combinations fails with InvalidRangeError whenever
\* min_stay_days > max_stay_days, and whenever a date string is unparseable.
C5_InvalidRangeError ==
    gen_status # "suspended" =>
        /\ gen_args.min_stay_days > gen_args.max_stay_days
              => gen_status = "InvalidRangeError"
        /\ (~DateParses(gen_args.earliest_departure) \/ ~DateParses(gen_args.latest_return))
              => gen_status = "InvalidRangeError"

\* C5 witness of the divergence: min_stay_days > max_stay_days over parseable
\* dates ends in a plain StopIteration with nothing yielded.
C5_SilentlyEmpty ==
    /\ gen_args.min_stay_days > gen_args.max_stay_days
    /\ DateParses(gen_args.earliest_departure) /\ DateParses(gen_args.latest_return)
    /\ gen_status = "exhausted"
    /\ yielded = <<>>

(***************************************************************************)
(* Properties of flight_data_filter                                        *)
(***************************************************************************)
\* C7: flight_data_filter is idempotent for every offer list and every
\* criteria, each component set to any value or unset:
\* filter(filter(x, c), c) = filter(x, c).
C7_FilterIdempotentAnyCriteria ==
    flt_pc = "twice" => flt_out2 = flt_out

\* C7 (amended): the same for every criteria whose top_n is unset or not
\* negative.
C7_FilterIdempotent ==
    (flt_pc = "twice" /\ (flt_crit.top_n.set => flt_crit.top_n.v >= 0))
        => flt_out2 = flt_out

\* C7 witness: both calls made with all three criteria set, the first one
\* dropping offers by the filters and cutting survivors by top_n.
C7_Witness ==
    /\ flt_pc = "twice"
    /\ flt_crit.max_stops.set /\ flt_crit.max_duration.set
    /\ flt_crit.top_n.set /\ flt_crit.top_n.v >= 1
    /\ Len(flt_in) = 3
    /\ Len(flt_out) = flt_crit.top_n.v
    /\ flt_out # SubSeq(flt_in, 1, flt_crit.top_n.v)

\* C8: with max_stops, max_duration and top_n all unset the filter returns
\* its input unchanged, in order and contents, also for offers whose stops or
\* duration entries are missing or unparseable.
C8_NoCriteriaIsIdentity ==
    (/\ flt_pc # "start"
     /\ ~flt_crit.max_stops.set /\ ~flt_crit.max_duration.set /\ ~flt_crit.top_n.set)
        => flt_out = flt_in

\* C8 witness: an unfiltered call on a list that holds an offer without a
\* stops entry and an offer whose duration text does not parse.
C8_Witness ==
    /\ flt_pc # "start"
    /\ ~flt_crit.max_stops.set /\ ~flt_crit.max_duration.set /\ ~flt_crit.top_n.set
    /\ \E i \in 1..Len(flt_in) : flt_in[i].stops.t = "absent"
    /\ \E i \in 1..Len(flt_in) : ~ParseDuration(GetOrEmpty(flt_in[i].duration)).ok
    /\ flt_out = flt_in

\* the duration the sample texts spell, read by hand: "2 hr 30 min",
\* "45 min" (minutes only), "5 hr" (hours only); any other value spells none
SpelledDuration(d) ==
    IF d.t = "str" /\ d.s = T_2h30 THEN [ok |-> TRUE, hour |-> 2, minute |-> 30]
    ELSE IF d.t = "str" /\ d.s = T_45m THEN [ok |-> TRUE, hour |-> 0, minute |-> 45]
    ELSE IF d.t = "str" /\ d.s = T_5h THEN [ok |-> TRUE, hour |-> 5, minute |-> 0]
    ELSE [ok |-> FALSE, hour |-> 0, minute |-> 0]

WithinDuration(f, max_duration) ==
    /\ SpelledDuration(f.duration).ok
    /\ ~TimeGreater(SpelledDuration(f.duration), max_duration)

OnlyDurationSet ==
    /\ flt_pc # "start"
    /\ flt_crit.max_duration.set /\ ~flt_crit.max_stops.set /\ ~flt_crit.top_n.set

\* C11: with max_duration set, flight_data_filter keeps an offer if and only
\* if its duration text parses to a total duration <= max_duration, a text
\* with only hours counting as that many hours and 0 minutes and a text with
\* only minutes as 0 hours and that many minutes; offers with a longer or an
\* unparseable duration are dropped.
C11_KeepsIffDurationWithin ==
    OnlyDurationSet =>
        flt_out = SelectSeq(flt_in, LAMBDA f : WithinDuration(f, flt_crit.max_duration.v))

\* C11 witness of the divergence: an offer of "5 hr" is dropped under a
\* max_duration of six hours.
C11_HourOnlyDropped ==
    /\ OnlyDurationSet
    /\ flt_crit.max_duration.v = [hour |-> 6, minute |-> 0]
    /\ Len(flt_in) = 1
    /\ flt_in[1].duration = PyStr(T_5h)
    /\ flt_out = <<>>

\* a is b with some elements left out, the rest in b's order
RECURSIVE IsSubsequence(_, _)
IsSubsequence(a, b) ==
    IF a = <<>> THEN TRUE
    ELSE IF b = <<>> THEN FALSE
    ELSE \/ (Head(a) = Head(b) /\ IsSubsequence(Tail(a), Tail(b)))
         \/ IsSubsequence(a, Tail(b))

\* the offers both filter blocks let through, in input order
Survivors ==
    SelectSeq(flt_in, LAMBDA f : Keeps(f, flt_crit.max_stops, flt_crit.max_duration))

StopsWithin(f, max_stops) == f.stops.t = "int" /\ f.stops.n <= max_stops

Narrowing ==
    /\ IsSubsequence(flt_out, flt_in)
    /\ flt_crit.max_stops.set =>
          /\ \A i \in 1..Len(flt_out) : StopsWithin(flt_out[i], flt_crit.max_stops.v)
          /\ \A i \in 1..Len(flt_in) :
                ~StopsWithin(flt_in[i], flt_crit.max_stops.v)
                    => \A j \in 1..Len(flt_out) : flt_out[j] # flt_in[i]

PrefixTake ==
    flt_crit.top_n.set =>
        /\ Len(flt_out) <= flt_crit.top_n.v
        /\ \/ (Len(Survivors) < flt_crit.top_n.v /\ flt_out = Survivors)
           \/ (Len(flt_out) = flt_crit.top_n.v
               /\ \A i \in 1..Len(flt_out) : i <= Len(Survivors) /\ flt_out[i] = Survivors[i])

EnvOfCall ==
    [driver_ok |-> fault # "driver_start",
     timeout_ok |-> fault # "set_timeout",
     nav_ok |-> fault # "navigation",
     page |-> flight_elements]

\* The statement-by-statement call and the function scrape_google_flights
\* (which run_tracker's model applies) end the same way.
ScrapeStepsMatchFunction ==
    pc = "done" /\ outcome.kind # "none" =>
        outcome = scrape_google_flights(EnvOfCall, call_args.departure_date,
                                        call_args.return_date)

\* C3: on every exit path of scrape_google_flights, an exception while
\* setting the page-load timeout included, the browser session the call
\* acquired is released before the call ends: between calls the number of
\* acquired sessions equals the number of released ones.
C3_SessionAlwaysReleased ==
    pc \in {"idle", "done"} => acquired = released

\* C3 witness of the divergence: a call that ended by a raise out of
\* set_page_load_timeout, its browser still running.
C3_LeakedSession ==
    /\ pc = "done" /\ fault = "set_timeout"
    /\ outcome.kind = "raise"
    /\ acquired = released + 1

\* C4: any unrecoverable error inside one call (browser start failure,
\* navigation failure or timeout, data-wait timeout) makes the call return
\* an empty list instead of raising to its caller.
C4_ErrorsReturnEmptyList ==
    (pc = "done" /\ fault # "none") => outcome = Returned(<<>>)

\* C4 witness of the divergence: the browser does not start and the call
\* raises.
C4_StartFailureRaises ==
    pc = "done" /\ fault = "driver_start" /\ outcome.kind = "raise"

HasDigit(text) == \E i \in 1..Len(text) : IsDigit(text[i])

\* C9: a result node becomes an offer if and only if its price text holds a
\* digit (whatever its airline, duration and stops fields are), its price
\* being the number spelled by the digits of the price text: after each loop
\* iteration the offers are, in order, those of the nodes with a digit in the
\* price.
C9_OfferIffPriceHasDigit ==
    pc = "extract" =>
        LET priced == SelectSeq(SubSeq(flight_elements, 1, idx - 1),
                                LAMBDA n : n.price.present /\ HasDigit(n.price.text))
        IN /\ Len(flights_data) = Len(priced)
           /\ \A i \in 1..Len(flights_data) : i <= Len(priced) =>
                 flights_data[i].price = DigitsValue(FilterDigits(priced[i].price.text))

\* C9 witness of the divergence: a node with a price but an unreadable stops
\* text, or without an airline element, has been passed over.
C9_PricedNodeDropped ==
    /\ pc = "extract" /\ idx = 2
    /\ HasDigit(flight_elements[1].price.text)
    /\ flights_data = <<>>

\* the offers of the nodes that extract, in the nodes' order
ExtractedOffers(nodes, departure_date, return_date) ==
    LET good == SelectSeq(nodes, LAMBDA n : ExtractNode(n, departure_date, return_date).ok)
    IN [i \in 1..Len(good) |-> ExtractNode(good[i], departure_date, return_date).offer]

\* C10: extraction is per-node isolated and order preserving: after every
\* iteration the list holds exactly the offers of the nodes seen so far that
\* extract, in their order (a failing node removes nothing), the loop goes on
\* to the last node, and that list is what the call returns.
C10_ExtractionIsolated ==
    /\ pc = "extract" =>
          flights_data = ExtractedOffers(SubSeq(flight_elements, 1, idx - 1),
                                         call_args.departure_date, call_args.return_date)
    /\ (pc \in {"finally", "done"} /\ fault = "none" /\ flight_elements # <<>>) =>
          /\ idx = Len(flight_elements) + 1
          /\ pending = ExtractedOffers(flight_elements, call_args.departure_date,
                                       call_args.return_date)
          /\ pc = "done" => outcome = Returned(pending)

\* C10 witness: a finished call over three nodes, the middle one failing,
\* that returned the offers of the first and the third.
C10_Witness ==
    /\ pc = "done" /\ fault = "none"
    /\ Len(flight_elements) = 3
    /\ ExtractNode(flight_elements[1], call_args.departure_date, call_args.return_date).ok
    /\ ~ExtractNode(flight_elements[2], call_args.departure_date, call_args.return_date).ok
    /\ ExtractNode(flight_elements[3], call_args.departure_date, call_args.return_date).ok
    /\ outcome.kind = "return" /\ Len(outcome.value) = 2
    /\ outcome.value[1].price # outcome.value[2].price

\* the steps of one call in source order, for the two options of the call
StepOrder(args) ==
    <<"navigate", "consent", "popups">>
    \o (IF args.cheapest_flights_option THEN <<"sort">> ELSE <<>>)
    \o (IF args.more_flights THEN <<"view_more">> ELSE <<>>)
    \o <<"wait", "extract">>

StepsInOrder ==
    /\ Len(steps) <= Len(StepOrder(call_args))
    /\ steps = SubSeq(StepOrder(call_args), 1, Len(steps))

NavigationSucceeded ==
    /\ Len(steps) >= 1
    /\ fault # "navigation"

\* C14: within one fetch call the steps run strictly in the order navigate,
\* consent, pop-ups, sort (when asked for), view-more (when asked for), wait
\* for data, extract; once navigation has succeeded the call cannot end
\* before the wait for data whatever the consent, pop-up, sort and view-more
\* steps did: an exception in them neither ends the call nor makes its result
\* a failure.
C14_StepsInOrderDataReached ==
    /\ StepsInOrder
    /\ (pc \in {"popups", "sort", "view_more", "wait", "extract"} =>
            fault = "none" /\ outcome.kind = "none")
    /\ (pc \in {"finally", "done"} /\ NavigationSucceeded =>
            /\ fault \in {"none", "data_wait"}
            /\ \E i \in 1..Len(steps) : steps[i] = "wait")
    /\ (pc = "done" /\ fault = "none" /\ outcome.kind # "none" =>
            /\ steps = StepOrder(call_args)
            /\ outcome = Returned(ExtractLoop(<<>>, flight_elements, 1,
                                              call_args.departure_date,
                                              call_args.return_date)))

\* C14 witness: a finished call in which all four optional steps raised and
\* which still went through every step and returned an offer.
C14_Witness ==
    /\ pc = "done"
    /\ soft_faults = {"consent", "popups", "sort", "view_more"}
    /\ steps = <<"navigate", "consent", "popups", "sort", "view_more", "wait", "extract">>
    /\ outcome.kind = "return"
    /\ outcome.value # <<>>

(***************************************************************************)
(* Properties of run_tracker                                               *)
(***************************************************************************)
\* C2: a single route's failure never aborts the batch run: whatever step of
\* route i fails, the failure is caught and every later route is still
\* processed, so a run ends only after every configured route was taken up.
C2_RouteFailureDoesNotAbortRun ==
    t_pc \in {"failed", "finished"} => route_i = Len(search_configs)

\* C2 witness of the divergence: the run has ended on the first route's
\* exception with a second route never taken up.
C2_LaterRouteSkipped ==
    /\ t_pc = "failed" /\ t_error # "none"
    /\ route_i = 1 /\ Len(search_configs) = 2

\* a node whose four fields are all there and readable
WellFormed(n) ==
    /\ n.airline.present /\ n.duration.present /\ n.price.present /\ n.stops.present
    /\ HasDigit(n.price.text)
    /\ n.stops.text = Nonstop \/ (n.stops.text # <<>> /\ IsDigit(n.stops.text[1]))

\* stops and minutes of the well-formed sample nodes, read by hand
StopsOf(n) == IF n.stops.text = Nonstop THEN 0 ELSE DigitVal(n.stops.text[1])

MinutesOf(n) ==
    IF n.duration.text = T_2h30 THEN 150
    ELSE IF n.duration.text = T_45m THEN 45
    ELSE 300

WithinCriteria(n, params) ==
    /\ StopsOf(n) <= params.max_stops
    /\ MinutesOf(n) <= 60 * params.max_duration_hours

ValidCount(page) == Len(SelectSeq(page, WellFormed))

\* every fetch of the route so far returned v valid nodes, all within the
\* route's criteria, beside malformed ones
UniformFetches(v) ==
    \A i \in 1..Len(route_log.fetched) :
        /\ ValidCount(route_log.fetched[i]) = v
        /\ \A j \in 1..Len(route_log.fetched[i]) :
              WellFormed(route_log.fetched[i][j])
                  => WithinCriteria(route_log.fetched[i][j], search.params)

RowsOfRoute == SubSeq(price_history, route_log.rows_before + 1, Len(price_history))

\* C6: end-to-end for one route: when the generator yields k combinations
\* and each fetch returns v <= top_n valid nodes that pass the filter, plus
\* malformed ones, then at the end of the route exactly k * v offers have
\* been persisted, every one tagged with the id of the route's search, and
\* the search was resolved or created exactly once, before the first fetch.
C6_RouteEndToEnd ==
    /\ (t_pc \in {"next_combo", "fetch", "persist", "route_done"}) =>
          /\ route_log.events # <<>> /\ route_log.events[1] = "resolve"
          /\ \A i \in 2..Len(route_log.events) : route_log.events[i] = "fetch"
          /\ search.params = search_configs[route_i]
    /\ t_pc = "route_done" =>
          \A v \in 0..TopN : UniformFetches(v) =>
              /\ Len(route_log.fetched) = Cardinality(ReferenceSet(search.params))
              /\ Len(RowsOfRoute) = Len(route_log.fetched) * v
              /\ \A i \in 1..Len(RowsOfRoute) : RowsOfRoute[i].search_id = search.id
              /\ \A i \in 1..Len(price_history) :
                    i <= route_log.rows_before => price_history[i].search_id # search.id
                        \/ \E j \in 1..(route_i - 1) : search_configs[j] = search.params

\* C6 witness: a finished route of two combinations, each fetch returning two
\* valid nodes and one malformed node, with four offers persisted.
C6_Witness ==
    /\ t_pc = "route_done"
    /\ Len(route_log.fetched) = 2
    /\ \A i \in 1..2 : route_log.fetched[i] = <<NodeFull, NodeNoPrice, NodePlain>>
    /\ UniformFetches(2)
    /\ Len(RowsOfRoute) = 4
    /\ route_log.rows_before > 0

\* at most one row per parameter tuple, and no id twice
SearchesUnique ==
    \A i \in 1..Len(searches) : \A j \in 1..Len(searches) :
        i # j => /\ searches[i].params # searches[j].params
                 /\ searches[i].id # searches[j].id

\* what one resolve-or-create (the step from line 134 on) does to the table
ResolveStep ==
    (t_pc = "next_route" /\ t_pc' = "next_combo") =>
        LET kwargs == search_configs[route_i']
            known == {i \in 1..Len(searches) : searches[i].params = kwargs}
        IN /\ search'.params = kwargs
           /\ known # {} =>
                 /\ searches' = searches
                 /\ \E i \in known : search' = searches[i]
           /\ known = {} =>
                 /\ searches' = Append(searches, search')
                 /\ \A i \in 1..Len(searches) : searches[i].id # search'.id

\* rows of the table are never changed or removed
SearchesKept ==
    /\ Len(searches') >= Len(searches)
    /\ SubSeq(searches', 1, Len(searches)) = searches

\* C13: resolve-or-create of a search is idempotent on the full parameter
\* tuple: after any sequence of get_or_create_search calls (over the routes
\* of a run, on a table earlier runs may have filled) the table holds at most
\* one Search per tuple, a call with a tuple already there returns that row's
\* id without inserting or modifying a row, and tuples that differ in any
\* field get distinct ids.
C13_ResolveOrCreateIdempotent ==
    /\ []SearchesUnique
    /\ [][ResolveStep /\ SearchesKept]_vars

\* C13 witness: the second of two routes with the same new tuple has been
\* resolved to the row the first one created, next to an older row of a
\* tuple that differs in max_stops only.
C13_Witness ==
    /\ t_pc = "next_combo" /\ route_i = 2
    /\ search_configs = <<RouteGoodNonstop, RouteGoodNonstop>>
    /\ Len(searches) = 2
    /\ searches[1].params = RouteGood
    /\ search = searches[2]
    /\ search.id # searches[1].id

\* a step that changes the store appends one batch for the combination at
\* hand: 1 to TopN rows after the rows already there, each with the id of the
\* route's search and the dates of the combination
AppendsOneBatch ==
    price_history' # price_history =>
        /\ Len(price_history') \in (Len(price_history) + 1)..(Len(price_history) + TopN)
        /\ SubSeq(price_history', 1, Len(price_history)) = price_history
        /\ \A i \in (Len(price_history) + 1)..Len(price_history') :
              /\ price_history'[i].search_id = search.id
              /\ price_history'[i].departure_date = date_combo.departure_date
              /\ price_history'[i].return_date = date_combo.return_date
        /\ n_combos' = n_combos + 1

\* every row belongs to a search of the table and to one of its combinations
RowsBelong ==
    \A i \in 1..Len(price_history) :
        \E j \in 1..Len(searches) :
            /\ searches[j].id = price_history[i].search_id
            /\ <<strptime(price_history[i].departure_date),
                 strptime(price_history[i].return_date),
                 strptime(price_history[i].return_date)
                     - strptime(price_history[i].departure_date)>>
                   \in ReferenceSet(searches[j].params)

\* the combinations of the current route that have rows in the store
CombosPersisted ==
    {<<RowsOfRoute[i].departure_date, RowsOfRoute[i].return_date>> :
        i \in 1..Len(RowsOfRoute)}

\* the counter is bound for the current route (line 143 has run for it)
CounterOfRoute == t_error # "get_or_create_search"

\* C15: the offer store only grows: rows are appended, never updated or
\* deleted, so the batches of earlier combinations survive a later failure;
\* each append made for one combination is non-empty and holds at most 3
\* offers; every persisted offer carries the id of an existing search and the
\* dates of a combination generated for that search; and the counter n_combos
\* of the route equals the number of combinations an append was made for.
C15_StoreAppendOnly ==
    /\ [][AppendsOneBatch]_vars
    /\ [](RowsBelong /\ (CounterOfRoute => n_combos = Cardinality(CombosPersisted)))

\* C15 witness: the run has failed in its second route after a batch of that
\* route and the batches of the first route were stored, and all are there.
C15_Witness ==
    /\ t_pc = "failed"
    /\ route_i = 2
    /\ route_log.rows_before >= 4
    /\ n_combos = 1
    /\ Len(RowsOfRoute) = TopN
    /\ \E i \in 1..route_log.rows_before :
          price_history[i].search_id # search.id

====
